---- MODULE Spec2Model ----
(***************************************************************************)
(* Model of the working-sheet extractor:                                   *)
(*   src/lib/pdf_document_object_model.py  (PdfDocument)                   *)
(*   src/lib/workbooks/F42_Beltz_TT_Zwangsstörungen_Fricke.py              *)
(*                                                                         *)
(* Texts are sequences of characters; a character is a one-character       *)
(* string, except the few characters that are named by their code point:   *)
(*   "U+00A0" no-break space, "U+0008" backspace (a C0 control character), *)
(*   "U+2013" en dash, "U+2014" em dash, "U+00DC" / "U+00FC" U/u umlaut,   *)
(*   "U+00E4" a umlaut.                                                    *)
(* Python values of unknown type (ids, page entries, stored data) are      *)
(* records tagged by their Python type in the field k.                     *)
(***************************************************************************)
EXTENDS Integers, Sequences, FiniteSets, TLC

VARIABLES
    sheets,     \* PdfDocument._working_sheets: id -> sequence of [name, pages]
    err,        \* the exception that escaped the last operation, "none" if none
    last,       \* the last operation on the document model, with its inputs
    before,     \* _working_sheets before the last operation (or pass)
    nops,       \* number of operations on the document model so far
    pages,      \* F42 handler: self.pages, the page texts
    given,      \* _working_sheets of the document the handler was given
    pc,         \* position of identify_working_sheets
    entries,    \* entries_found of identify_working_sheets
    blocks,     \* blocks of identify_working_sheets
    run,        \* number of completed identify_working_sheets calls
    fin,        \* the arguments of the function under check
    fout        \* its result

vars == <<sheets, err, last, before, nops, pages, given, pc, entries, blocks, run, fin, fout>>

(***************************************************************************)
(* Characters and character classes (Python 3 str patterns are Unicode).   *)
(***************************************************************************)
UpperLetters == <<"A","B","C","D","E","F","G","H","I","J","K","L","M","N","O",
                  "P","Q","R","S","T","U","V","W","X","Y","Z","U+00DC">>
LowerLetters == <<"a","b","c","d","e","f","g","h","i","j","k","l","m","n","o",
                  "p","q","r","s","t","u","v","w","x","y","z","U+00FC">>
Range(f) == {f[i] : i \in DOMAIN f}
Letter == Range(UpperLetters) \cup Range(LowerLetters) \cup {"U+00E4"}
Digit == {"0","1","2","3","4","5","6","7","8","9"}
\* \w
WordChar == Letter \cup Digit \cup {"_"}
\* \s, and the characters str.strip() removes
Space == {" ", "\t", "\n", "U+00A0"}
\* [\x00-\x1f\x7f]
Control == {"\t", "\n", "U+0008"}
Punct == {"/", "-", "+", "U+2013", "U+2014", ":", ";", ",", ".", "\\", "(", ")"}
Alphabet == WordChar \cup Space \cup Control \cup Punct
\* . (without DOTALL)
AnyChar == Alphabet \ {"\n"}

\* str.lower() on one character
LowerChar(c) ==
    IF \E i \in DOMAIN UpperLetters : UpperLetters[i] = c
    THEN LowerLetters[CHOOSE i \in DOMAIN UpperLetters : UpperLetters[i] = c]
    ELSE c
UpperChar(c) ==
    IF \E i \in DOMAIN LowerLetters : LowerLetters[i] = c
    THEN UpperLetters[CHOOSE i \in DOMAIN LowerLetters : LowerLetters[i] = c]
    ELSE c
\* str.lower()
Lower(s) == [i \in 1..Len(s) |-> LowerChar(s[i])]

DigitVal(c) ==
    CASE c = "0" -> 0 [] c = "1" -> 1 [] c = "2" -> 2 [] c = "3" -> 3
      [] c = "4" -> 4 [] c = "5" -> 5 [] c = "6" -> 6 [] c = "7" -> 7
      [] c = "8" -> 8 [] c = "9" -> 9
RECURSIVE DecVal(_)
\* int() of a non-empty run of decimal digits
DecVal(s) ==
    IF s = <<>> THEN 0
    ELSE 10 * DecVal(SubSeq(s, 1, Len(s) - 1)) + DigitVal(s[Len(s)])
DigitChar(d) ==
    CASE d = 0 -> "0" [] d = 1 -> "1" [] d = 2 -> "2" [] d = 3 -> "3"
      [] d = 4 -> "4" [] d = 5 -> "5" [] d = 6 -> "6" [] d = 7 -> "7"
      [] d = 8 -> "8" [] d = 9 -> "9"
RECURSIVE NatStr(_)
\* str() of an integer >= 0
NatStr(n) == IF n < 10 THEN <<DigitChar(n)>> ELSE NatStr(n \div 10) \o <<DigitChar(n % 10)>>
\* str() of an integer
IntStr(n) == IF n < 0 THEN <<"-">> \o NatStr(0 - n) ELSE NatStr(n)

Min(a, b) == IF a < b THEN a ELSE b
Max(a, b) == IF a > b THEN a ELSE b

(***************************************************************************)
(* Regular expressions (Python re: backtracking, leftmost, first           *)
(* alternative in priority order).  A pattern is a record tagged by t; a   *)
(* match state is [start, pos, g]: the text position where the match       *)
(* began, the position of the next unread character, and the spans         *)
(* <<first, last + 1>> of the groups (<<0, 0>> for a group that did not    *)
(* take part).  Match returns every way a pattern matches from a state, in *)
(* the order the backtracking engine tries them; its head is re's answer.  *)
(***************************************************************************)
NGroups == 3
Ch(cs) == [t |-> "set", cs |-> cs]
Lit(c) == Ch({c})
\* one letter under re.IGNORECASE
CI(c) == Ch({c, LowerChar(c), UpperChar(c)})
Cat(rs) == [t |-> "cat", rs |-> rs]
Alt(rs) == [t |-> "alt", rs |-> rs]
Rep(r, lo, hi) == [t |-> "rep", r |-> r, lo |-> lo, hi |-> hi, greedy |-> TRUE]
LazyRep(r, lo, hi) == [t |-> "rep", r |-> r, lo |-> lo, hi |-> hi, greedy |-> FALSE]
\* hi < 0: no upper limit
Star(r) == Rep(r, 0, 0 - 1)
Plus(r) == Rep(r, 1, 0 - 1)
Opt(r) == Rep(r, 0, 1)
Grp(k, r) == [t |-> "grp", k |-> k, r |-> r]
WB == [t |-> "wb"]
BOS == [t |-> "bos"]
EOS == [t |-> "eos"]
\* a literal text; ci: under re.IGNORECASE
LitSeq(s, ci) == Cat([i \in 1..Len(s) |-> IF ci THEN CI(s[i]) ELSE Lit(s[i])])

IsWordAt(s, i) == i >= 1 /\ i <= Len(s) /\ s[i] \in WordChar
\* \b at position i (between s[i-1] and s[i])
AtWordBoundary(s, i) == IsWordAt(s, i - 1) # IsWordAt(s, i)
\* $ without re.MULTILINE: at the end, or before a final newline
AtEnd(s, i) == i = Len(s) + 1 \/ (i = Len(s) /\ s[i] = "\n")

NoGroups == [k \in 1..NGroups |-> <<0, 0>>]
State0(i) == [start |-> i, pos |-> i, g |-> NoGroups]

\* a repetition of one character class: the run of characters of the class is
\* taken as long as possible (as short as possible for a lazy one) first
MatchRepSet(r, s, st) ==
    LET cap == IF r.hi < 0 THEN Len(s) - st.pos + 1 ELSE Min(r.hi, Len(s) - st.pos + 1)
        taken == CHOOSE n \in 0..cap :
                  /\ \A j \in 1..n : s[st.pos + j - 1] \in r.r.cs
                  /\ (n = cap \/ s[st.pos + n] \notin r.r.cs)
    IN IF taken < r.lo THEN <<>>
       ELSE [i \in 1..(taken - r.lo + 1) |->
               [st EXCEPT !.pos = st.pos + (IF r.greedy THEN taken - i + 1 ELSE r.lo + i - 1)]]

RECURSIVE Match(_, _, _), MatchAll(_, _, _), MatchCat(_, _, _, _),
          MatchAlt(_, _, _, _), MatchRep(_, _, _, _, _)
Match(r, s, st) ==
    CASE r.t = "set" ->
            IF st.pos <= Len(s) /\ s[st.pos] \in r.cs
            THEN <<[st EXCEPT !.pos = @ + 1]>> ELSE <<>>
      [] r.t = "wb"  -> IF AtWordBoundary(s, st.pos) THEN <<st>> ELSE <<>>
      [] r.t = "bos" -> IF st.pos = 1 THEN <<st>> ELSE <<>>
      [] r.t = "eos" -> IF AtEnd(s, st.pos) THEN <<st>> ELSE <<>>
      [] r.t = "cat" -> MatchCat(r.rs, 1, s, <<st>>)
      [] r.t = "alt" -> MatchAlt(r.rs, 1, s, st)
      [] r.t = "grp" ->
            LET ms == Match(r.r, s, st)
            IN [i \in 1..Len(ms) |-> [ms[i] EXCEPT !.g[r.k] = <<st.pos, ms[i].pos>>]]
      [] r.t = "rep" ->
            IF r.r.t = "set" THEN MatchRepSet(r, s, st) ELSE MatchRep(r, r.lo, r.hi, s, st)
\* the matches of r from each of the states sts, in order
MatchAll(r, s, sts) ==
    IF sts = <<>> THEN <<>>
    ELSE Match(r, s, Head(sts)) \o MatchAll(r, s, Tail(sts))
MatchCat(rs, k, s, sts) ==
    IF k > Len(rs) \/ sts = <<>> THEN sts
    ELSE MatchCat(rs, k + 1, s, MatchAll(rs[k], s, sts))
MatchAlt(rs, k, s, st) ==
    IF k > Len(rs) THEN <<>>
    ELSE Match(rs[k], s, st) \o MatchAlt(rs, k + 1, s, st)
RECURSIVE MatchRepAll(_, _, _, _, _)
MatchRepAll(r, lo, hi, s, sts) ==
    IF sts = <<>> THEN <<>>
    ELSE MatchRep(r, lo, hi, s, Head(sts)) \o MatchRepAll(r, lo, hi, s, Tail(sts))
MatchRep(r, lo, hi, s, st) ==
    LET once == SelectSeq(Match(r.r, s, st), LAMBDA m : m.pos > st.pos)
        more == IF hi # 0
                THEN MatchRepAll(r, Max(lo - 1, 0), IF hi < 0 THEN hi ELSE hi - 1, s, once)
                ELSE <<>>
        stop == IF lo = 0 THEN <<st>> ELSE <<>>
    IN IF r.greedy THEN more \o stop ELSE stop \o more

NoMatch == [start |-> 0, pos |-> 0, g |-> NoGroups]
Found(m) == m.start > 0
\* pattern.search(s, i): the leftmost match starting at position i or later
SearchFrom(r, s, i) ==
    LET First(starts) ==
            IF starts = {} THEN 0 ELSE CHOOSE j \in starts : \A j2 \in starts : j <= j2
        At(first) == IF first = 0 THEN NoMatch ELSE Match(r, s, State0(first))[1]
    IN At(First({j \in i..(Len(s) + 1) : Match(r, s, State0(j)) # <<>>}))
\* re.search
Search(r, s) == SearchFrom(r, s, 1)
\* re.match
MatchAt(r, s) ==
    LET FirstOf(ms) == IF ms # <<>> THEN ms[1] ELSE NoMatch
    IN FirstOf(Match(r, s, State0(1)))
\* m.group(k); <<>> when the group did not take part
Group(s, m, k) == SubSeq(s, m.g[k][1], m.g[k][2] - 1)
RECURSIVE FindIter(_, _, _)
\* pattern.finditer(s): the non-overlapping matches from position i on
FindIter(r, s, i) ==
    LET From(m) ==
            IF ~Found(m) THEN <<>>
            ELSE <<m>> \o FindIter(r, s, IF m.pos > m.start THEN m.pos ELSE m.pos + 1)
    IN From(SearchFrom(r, s, i))
RECURSIVE SubFrom(_, _, _, _)
\* re.sub(r, rep, s) for a pattern that matches no empty text
SubFrom(r, rep, s, i) ==
    LET From(m) ==
            IF ~Found(m) THEN SubSeq(s, i, Len(s))
            ELSE SubSeq(s, i, m.start - 1) \o rep \o SubFrom(r, rep, s, m.pos)
    IN From(SearchFrom(r, s, i))
Sub(r, rep, s) == SubFrom(r, rep, s, 1)

(***************************************************************************)
(* str methods                                                             *)
(***************************************************************************)
RECURSIVE LStripSet(_, _), RStripSet(_, _)
LStripSet(s, cs) == IF s # <<>> /\ Head(s) \in cs THEN LStripSet(Tail(s), cs) ELSE s
RStripSet(s, cs) ==
    IF s # <<>> /\ s[Len(s)] \in cs THEN RStripSet(SubSeq(s, 1, Len(s) - 1), cs) ELSE s
\* s.strip(chars)
StripSet(s, cs) == RStripSet(LStripSet(s, cs), cs)
\* s.strip()
Strip(s) == StripSet(s, Space)
\* s.isdigit()
IsDigitStr(s) == s # <<>> /\ \A i \in 1..Len(s) : s[i] \in Digit
\* sub in s
Contains(s, sub) ==
    \E i \in 1..(Len(s) - Len(sub) + 1) : SubSeq(s, i, i + Len(sub) - 1) = sub

(***************************************************************************)
(* Text normalizer and header parser                                       *)
(***************************************************************************)
\* None of an Optional[int] whose values are parsed from digits
None == 0 - 1

RE_CONTROL == Plus(Ch(Control))
RE_SPACES == Plus(Ch(Space))
\* str.replace(old, new) for a one-character old
ReplaceChar(s, old, new) == [i \in 1..Len(s) |-> IF s[i] = old THEN new ELSE s[i]]
clean_header_text(s) ==
    IF s = <<>> THEN <<>>
    ELSE Strip(Sub(RE_SPACES, <<" ">>,
                   ReplaceChar(Sub(RE_CONTROL, <<" ">>, s), "U+00A0", " ")))

Digits14 == Rep(Ch(Digit), 1, 4)
\* \bAB\s*(\d{1,4})\b, re.IGNORECASE
RE_AB_ID == Cat(<<WB, CI("A"), CI("B"), Star(Ch(Space)), Grp(1, Digits14), WB>>)
\* \b(\d{1,4})\s*/\s*(\d{1,4})\b
RE_FRAC == Cat(<<WB, Grp(1, Digits14), Star(Ch(Space)), Lit("/"), Star(Ch(Space)),
                 Grp(2, Digits14), WB>>)
\* \b\d{1,4}\s*/\s*\d{1,4}\b$
RE_FRAC_END == Cat(<<WB, Digits14, Star(Ch(Space)), Lit("/"), Star(Ch(Space)),
                     Digits14, WB, EOS>>)
\* \b\d{1,4}$
RE_NUM_END == Cat(<<WB, Digits14, EOS>>)

parse_ab_header(header_text) ==
    LET Fields(txt, m_id, m_frac, name) ==
            IF txt = <<>> THEN [id |-> None, name |-> <<>>, curr |-> None, total |-> None]
            ELSE [id |-> IF Found(m_id) THEN DecVal(Group(txt, m_id, 1)) ELSE None,
                  name |-> name,
                  curr |-> IF Found(m_frac) THEN DecVal(Group(txt, m_frac, 1)) ELSE None,
                  total |-> IF Found(m_frac) THEN DecVal(Group(txt, m_frac, 2)) ELSE None]
        Name(txt) ==
            Strip(Sub(RE_NUM_END, <<>>,
                      Strip(Sub(RE_FRAC_END, <<>>, Strip(Sub(RE_AB_ID, <<>>, txt))))))
        Parsed(txt) == Fields(txt, Search(RE_AB_ID, txt), Search(RE_FRAC, txt), Name(txt))
    IN Parsed(clean_header_text(header_text))

HeadLines == 12
HeadChars == 400
RECURSIVE NthNewline(_, _, _)
\* position of the n-th "\n" of s at or after i, 0 if there is none
NthNewline(s, i, n) ==
    IF i > Len(s) THEN 0
    ELSE IF s[i] = "\n" THEN (IF n = 1 THEN i ELSE NthNewline(s, i + 1, n - 1))
    ELSE NthNewline(s, i + 1, n)
\* "\n".join(s.splitlines()[:12])[:400]
HeadBand(s) ==
    LET cut == NthNewline(s, 1, HeadLines)
        joined == IF cut > 0 THEN SubSeq(s, 1, cut - 1)
                  ELSE IF s # <<>> /\ s[Len(s)] = "\n" THEN SubSeq(s, 1, Len(s) - 1)
                  ELSE s
    IN SubSeq(joined, 1, Min(Len(joined), HeadChars))
header_ab_on_page(text) ==
    LET IdIn(cleaned, m) == IF Found(m) THEN DecVal(Group(cleaned, m, 1)) ELSE None
        \* the id of the first AB token of a text, None without one
        FirstId(cleaned) == IdIn(cleaned, Search(RE_AB_ID, cleaned))
        HeadOrWhole(head_id) ==
            IF head_id # None THEN head_id ELSE FirstId(clean_header_text(text))
    IN IF text = <<>> THEN None
       ELSE HeadOrWhole(FirstId(clean_header_text(HeadBand(text))))

(***************************************************************************)
(* Python values of unknown type: [k |-> "int", v |-> n],                  *)
(* [k |-> "str", v |-> text], [k |-> "float", v |-> tenths] (2.5 is 25),   *)
(* [k |-> "none", v |-> 0], [k |-> "list", v |-> sequence of values],      *)
(* [k |-> "dict", v |-> sequence of [key, val]] in insertion order.        *)
(***************************************************************************)
PyInt(n) == [k |-> "int", v |-> n]
PyStr(s) == [k |-> "str", v |-> s]
PyFloat(tenths) == [k |-> "float", v |-> tenths]
PyNone == [k |-> "none", v |-> 0]
PyList(xs) == [k |-> "list", v |-> xs]
PyDict(kvs) == [k |-> "dict", v |-> kvs]
KV(key, val) == [key |-> key, val |-> val]

\* bool(x)
Truthy(x) ==
    CASE x.k = "none" -> FALSE
      [] x.k \in {"int", "float"} -> x.v # 0
      [] OTHER -> x.v # <<>>
\* x or []
OrEmptyList(x) == IF Truthy(x) THEN x ELSE PyList(<<>>)
\* whether iter(x) raises TypeError
NotIterable(x) == x.k \in {"int", "float", "none"}
\* list(x) for an iterable x
IterElems(x) ==
    CASE x.k = "list" -> x.v
      [] x.k = "str" -> [i \in 1..Len(x.v) |-> PyStr(<<x.v[i]>>)]
      [] x.k = "dict" -> [i \in 1..Len(x.v) |-> x.v[i].key]
\* isinstance(x, dict)
IsDict(x) == x.k = "dict"

\* the texts int() accepts, after strip(): [+-]?\d+(_\d+)*
RE_INT_LITERAL ==
    Cat(<<BOS, Opt(Ch({"+", "-"})), Plus(Ch(Digit)),
          Star(Cat(<<Lit("_"), Plus(Ch(Digit))>>))>>)
IsIntLiteral(s) ==
    LET Whole(ms) == \E i \in 1..Len(ms) : ms[i].pos = Len(s) + 1
    IN Whole(Match(RE_INT_LITERAL, s, State0(1)))
IntOfLiteral(s) ==
    LET digits == SelectSeq(s, LAMBDA c : c \in Digit)
    IN IF s[1] = "-" THEN 0 - DecVal(digits) ELSE DecVal(digits)
\* int(x): [ok |-> whether it returns, v |-> the result]
IntOf(x) ==
    CASE x.k = "int" -> [ok |-> TRUE, v |-> x.v]
      [] x.k = "float" ->
            [ok |-> TRUE, v |-> IF x.v < 0 THEN 0 - ((0 - x.v) \div 10) ELSE x.v \div 10]
      [] x.k = "str" ->
            LET OfText(s) ==
                    IF IsIntLiteral(s) THEN [ok |-> TRUE, v |-> IntOfLiteral(s)]
                    ELSE [ok |-> FALSE, v |-> 0]
            IN OfText(Strip(x.v))
      [] OTHER -> [ok |-> FALSE, v |-> 0]
\* str(x) of an int or a str
StrOf(x) == IF x.k = "int" THEN IntStr(x.v) ELSE x.v

RECURSIVE Dedup(_)
\* list(dict.fromkeys(xs)): the first occurrences, in order
Dedup(xs) ==
    IF xs = <<>> THEN <<>>
    ELSE LET init == Dedup(SubSeq(xs, 1, Len(xs) - 1))
         IN IF \E i \in 1..Len(init) : init[i] = xs[Len(xs)] THEN init
            ELSE Append(init, xs[Len(xs)])
RECURSIVE InsertSorted(_, _)
InsertSorted(xs, x) ==
    IF xs = <<>> THEN <<x>>
    ELSE IF xs[Len(xs)] <= x THEN Append(xs, x)
    ELSE Append(InsertSorted(SubSeq(xs, 1, Len(xs) - 1), x), xs[Len(xs)])
RECURSIVE Sorted(_)
\* sorted(xs) of integers
Sorted(xs) ==
    IF xs = <<>> THEN <<>>
    ELSE InsertSorted(Sorted(SubSeq(xs, 1, Len(xs) - 1)), xs[Len(xs)])

(***************************************************************************)
(* PdfDocument.  _working_sheets maps an id to its names in insertion      *)
(* order: a function from ids to sequences of [name, pages].  Operations   *)
(* return [sheets, err]: the mapping afterwards and the exception that     *)
(* escaped ("none" when the call returned).                                *)
(***************************************************************************)
NoSheets == [i \in {} |-> <<>>]
Bucket(sh, id) == IF id \in DOMAIN sh THEN sh[id] ELSE <<>>
NameIndex(bucket, name) ==
    IF \E i \in 1..Len(bucket) : bucket[i].name = name
    THEN CHOOSE i \in 1..Len(bucket) : bucket[i].name = name
    ELSE 0
\* a store that keeps a name only when it comes with pages
PutNameWithPages(bucket, name, pgs) ==
    LET i == NameIndex(bucket, name)
    IN IF pgs = <<>> THEN bucket
       ELSE IF i > 0 THEN [bucket EXCEPT ![i].pages = pgs]
       ELSE Append(bucket, [name |-> name, pages |-> pgs])
\* bucket[name] = pages on a dict: in place, or appended as the newest key
PutName(bucket, name, pgs) ==
    LET i == NameIndex(bucket, name)
    IN IF i > 0 THEN [bucket EXCEPT ![i].pages = pgs]
       ELSE Append(bucket, [name |-> name, pages |-> pgs])
\* d[id] = bucket
PutBucket(sh, id, bucket) ==
    [i \in DOMAIN sh \cup {id} |-> IF i = id THEN bucket ELSE sh[i]]

RECURSIVE ConvertPages(_)
\* the loop of _normalize_pages: int(p) of every p it converts to an int > 0
ConvertPages(ps) ==
    IF ps = <<>> THEN <<>>
    ELSE LET Kept(r) == IF r.ok /\ r.v > 0 THEN <<r.v>> ELSE <<>>
         IN Kept(IntOf(Head(ps))) \o ConvertPages(Tail(ps))
\* a normalization that removes the duplicates and keeps the order of arrival
normalize_pages_unsorted(pgs) ==
    LET Of(it) ==
            IF NotIterable(it) THEN [err |-> "TypeError", v |-> <<>>]
            ELSE [err |-> "none", v |-> Dedup(ConvertPages(IterElems(it)))]
    IN Of(OrEmptyList(pgs))
\* _normalize_pages(pages): [err, v]
normalize_pages(pgs) ==
    LET Of(it) ==
            IF NotIterable(it) THEN [err |-> "TypeError", v |-> <<>>]
            ELSE [err |-> "none", v |-> Sorted(Dedup(ConvertPages(IterElems(it))))]
    IN Of(OrEmptyList(pgs))

\* ^\s*(\d+)
RE_LEADING_DIGITS == Cat(<<BOS, Star(Ch(Space)), Grp(1, Plus(Ch(Digit)))>>)
coerce_id_to_int(id_value) ==
    LET Leading(s, m) == IF Found(m) THEN DecVal(Group(s, m, 1)) ELSE 0
        OfText(s) ==
            IF s = <<>> THEN 0
            ELSE IF IsIntLiteral(s) THEN IntOfLiteral(s)
            ELSE Leading(s, MatchAt(RE_LEADING_DIGITS, s))
    IN CASE id_value.k = "none" -> 0
         [] id_value.k = "int" -> id_value.v
         \* str(2.5) is "2.5": no int literal, leading digits 2; "-2.5" has none
         [] id_value.k = "float" -> IF id_value.v < 0 THEN 0 ELSE id_value.v \div 10
         [] id_value.k = "str" -> OfText(Strip(id_value.v))
         [] OTHER -> 0

\* a merge that keeps only the pages of the call
MergePagesNewOnly(existing, new_pages) == Sorted(Dedup(new_pages))
\* merged = sorted(dict.fromkeys(existing + new_pages))
MergePages(existing, new_pages) == Sorted(Dedup(existing \o new_pages))
add_working_sheet(sh, id_, name, pgs) ==
    LET Put(id_key, bucket, i, new_pages) ==
            PutBucket(sh, id_key,
                      PutName(bucket, name,
                              IF i > 0 THEN MergePages(bucket[i].pages, new_pages)
                              ELSE new_pages))
        InBucket(id_key, bucket, new_pages) ==
            Put(id_key, bucket, NameIndex(bucket, name), new_pages)
        Stored(id_key, np) ==
            IF np.err # "none" THEN [sheets |-> sh, err |-> np.err]
            ELSE [sheets |-> InBucket(id_key, Bucket(sh, id_key), np.v), err |-> "none"]
    IN IF name = <<>> THEN [sheets |-> sh, err |-> "none"]
       ELSE Stored(coerce_id_to_int(id_), normalize_pages(pgs))

\* get_pages(id_, name)
get_pages(sh, id_, name) ==
    LET At(bucket, i) == IF i > 0 THEN bucket[i].pages ELSE <<>>
        In(bucket) == At(bucket, NameIndex(bucket, name))
    IN In(Bucket(sh, coerce_id_to_int(id_)))

\* d.get(key) of a dict value with str keys
DictGet(d, key) ==
    IF \E i \in 1..Len(d.v) : d.v[i].key = PyStr(key)
    THEN d.v[CHOOSE i \in 1..Len(d.v) : d.v[i].key = PyStr(key)].val
    ELSE PyNone
WORKING_SHEETS == <<"w", "o", "r", "k", "i", "n", "g", "_", "s", "h", "e", "e", "t", "s">>

RECURSIVE FromDictNames(_, _, _)
\* the inner loop of from_dict over val.items(), into the bucket of id_key
FromDictNames(items, id_key, acc) ==
    IF items = <<>> \/ acc.err # "none" THEN acc
    ELSE LET name == StrOf(Head(items).key)
             sh == acc.sheets
             Loaded(np) ==
                IF np.err # "none" THEN [acc EXCEPT !.err = np.err]
                ELSE IF np.v # <<>>
                THEN [acc EXCEPT !.sheets =
                         PutBucket(sh, id_key, PutName(Bucket(sh, id_key), name, np.v))]
                ELSE acc
         IN FromDictNames(Tail(items), id_key,
                          Loaded(normalize_pages(OrEmptyList(Head(items).val))))
RECURSIVE FromDictIds(_, _)
\* the outer loop of from_dict over ws.items()
FromDictIds(items, acc) ==
    IF items = <<>> \/ acc.err # "none" THEN acc
    ELSE FromDictIds(Tail(items),
            IF ~IsDict(Head(items).val) THEN acc
            ELSE FromDictNames(Head(items).val.v, coerce_id_to_int(Head(items).key), acc))
\* PdfDocument.from_dict(data): the _working_sheets of the new document
from_dict(data) ==
    LET ws == IF IsDict(data)
              THEN (IF Truthy(DictGet(data, WORKING_SHEETS))
                    THEN DictGet(data, WORKING_SHEETS) ELSE PyDict(<<>>))
              ELSE PyNone
    IN IF ~IsDict(data) THEN [sheets |-> NoSheets, err |-> "AttributeError"]
       ELSE IF ~IsDict(ws) THEN [sheets |-> NoSheets, err |-> "none"]
       ELSE FromDictIds(ws.v, [sheets |-> NoSheets, err |-> "none"])

RECURSIVE SetToSorted(_)
\* the integers of a finite set in ascending order
SetToSorted(S) ==
    IF S = {} THEN <<>>
    ELSE LET m == CHOOSE x \in S : \A y \in S : x <= y
         IN <<m>> \o SetToSorted(S \ {m})
\* a serialization that keeps the first page only
ToDictFirstPage(pgs) == PyList([q \in 1..Min(1, Len(pgs)) |-> PyInt(pgs[q])])
ToDictPages(pgs) == PyList([q \in 1..Len(pgs) |-> PyInt(pgs[q])])
ToDictNames(bucket) ==
    PyDict([n \in 1..Len(bucket) |-> KV(PyStr(bucket[n].name), ToDictPages(bucket[n].pages))])
\* to_dict()["working_sheets"] (the ids in ascending order)
to_dict(sh) ==
    LET ids == SetToSorted(DOMAIN sh)
    IN PyDict([j \in 1..Len(ids) |-> KV(PyStr(IntStr(ids[j])), ToDictNames(sh[ids[j]]))])

RECURSIVE SetterNames(_, _, _)
\* the inner loop of the working_sheets setter over names.items()
SetterNames(items, id_key, acc) ==
    IF items = <<>> \/ acc.err # "none" THEN acc
    ELSE LET sh == acc.sheets
             Set(np) ==
                IF np.err # "none" THEN [acc EXCEPT !.err = np.err]
                ELSE [acc EXCEPT !.sheets =
                         PutBucket(sh, id_key,
                                   PutName(Bucket(sh, id_key), StrOf(Head(items).key), np.v))]
         IN SetterNames(Tail(items), id_key,
                        Set(normalize_pages(OrEmptyList(Head(items).val))))
RECURSIVE SetterIds(_, _)
\* the outer loop of the working_sheets setter over value.items()
SetterIds(items, acc) ==
    IF items = <<>> \/ acc.err # "none" THEN acc
    ELSE LET raw_k == Head(items).key
             names == Head(items).val
             id_key == IF raw_k.k = "str" THEN DecVal(raw_k.v) ELSE raw_k.v
         IN SetterIds(Tail(items),
                IF ~(raw_k.k = "int" \/ (raw_k.k = "str" /\ IsDigitStr(raw_k.v)))
                THEN [acc EXCEPT !.err = "ValueError"]
                ELSE IF ~IsDict(names) THEN [acc EXCEPT !.err = "ValueError"]
                ELSE SetterNames(names.v, id_key,
                        [acc EXCEPT !.sheets = PutBucket(acc.sheets, id_key, <<>>)]))
\* doc.working_sheets = value: _working_sheets afterwards
set_working_sheets(sh, value) ==
    LET Assigned(r) == IF r.err # "none" THEN [sheets |-> sh, err |-> r.err] ELSE r
    IN IF ~IsDict(value) THEN [sheets |-> sh, err |-> "ValueError"]
       ELSE Assigned(SetterIds(value.v, [sheets |-> NoSheets, err |-> "none"]))

(***************************************************************************)
(* F42 workbook handler: the functions over self.pages                     *)
(***************************************************************************)
\* min(page_no, total_pages_doc)
ClampToDocument(page_no, total_pages_doc) == Min(page_no, total_pages_doc)
RECURSIVE ScanLastPage(_, _, _, _, _)
\* the loop of determine_last_page from the given offset on
ScanLastPage(pgs, start_page, current_id, max_scan, offset) ==
    LET total_pages_doc == Len(pgs)
        page_no == start_page + offset
        ByPair(found, curr, second) ==
            IF found /\ second >= curr /\ second <= total_pages_doc
                     /\ second - start_page < 500
            THEN ClampToDocument(second, total_pages_doc)
            ELSE IF found /\ second > 0 /\ second <= 400
            THEN ClampToDocument(Max(start_page, start_page + (second - curr)),
                                 total_pages_doc)
            ELSE ScanLastPage(pgs, start_page, current_id, max_scan, offset + 1)
        PairOf(pt, m) ==
            ByPair(Found(m), DecVal(Group(pt, m, 1)), DecVal(Group(pt, m, 2)))
        ByText(pt) == PairOf(pt, Search(RE_FRAC, pt))
        ByHeader(raw_pt, hdr) ==
            IF hdr # None /\ current_id # None /\ hdr # current_id
            THEN ClampToDocument(Max(start_page, page_no - 1), total_pages_doc)
            ELSE ByText(clean_header_text(raw_pt))
        OnPage(raw_pt) == ByHeader(raw_pt, header_ab_on_page(raw_pt))
    IN IF offset >= max_scan \/ page_no < 1 \/ page_no > total_pages_doc
       THEN ClampToDocument(start_page, total_pages_doc)
       ELSE OnPage(pgs[page_no])
\* determine_last_page(start_page, current_id, max_scan); max_scan is PyNone or PyInt(n)
determine_last_page(pgs, start_page, current_id, max_scan) ==
    IF pgs = <<>> THEN start_page
    ELSE ScanLastPage(pgs, start_page, current_id,
                      IF max_scan.k = "none" THEN Len(pgs) - start_page + 1 ELSE max_scan.v, 0)

RECURSIVE UnionPages(_)
UnionPages(bucket) ==
    IF bucket = <<>> THEN {}
    ELSE Range(Head(bucket).pages) \cup UnionPages(Tail(bucket))
\* the pages stored under the first name of the id only
FirstNamePages(sh, id_int) ==
    IF Bucket(sh, id_int) = <<>> THEN {} ELSE Range(Bucket(sh, id_int)[1].pages)
\* existing_pages_for_id(id_int)
existing_pages_for_id(sh, id_int) == UnionPages(Bucket(sh, id_int))

\* \w{4,}
RE_TOKEN == Rep(Ch(WordChar), 4, 0 - 1)
\* re.findall(r"\w{4,}", s)
Tokens(s) ==
    LET Texts(ms) == [i \in 1..Len(ms) |-> SubSeq(s, ms[i].start, ms[i].pos - 1)]
    IN Texts(FindIter(RE_TOKEN, s, 1))
\* the first page number i with hits[i], 0 if none (for ... in range(total): if ...: return i + 1)
FirstPage(hits) ==
    LET First(S) == IF S = {} THEN 0 ELSE CHOOSE i \in S : \A j \in S : i <= j
    IN First({i \in 1..Len(hits) : hits[i]})
RECURSIVE FirstTokenPage(_, _, _)
\* the token loop of _find_page_for_entry: tokens outside, pages inside
FirstTokenPage(pgs, tokens, k) ==
    IF k > Len(tokens) THEN 0
    ELSE LET OrNext(hit) == IF hit > 0 THEN hit ELSE FirstTokenPage(pgs, tokens, k + 1)
         IN OrNext(FirstPage([i \in 1..Len(pgs) |->
                                 Contains(Lower(clean_header_text(pgs[i])), tokens[k])]))
\* _find_page_for_entry(id_int, name); id_int is None or an int, name <<>> for
\* None or ""; the result is None or a page number
find_page_for_entry(pgs, id_int, name) ==
    LET OrNone(hit) == IF hit > 0 THEN hit ELSE None
        ByToken(name_norm) == OrNone(FirstTokenPage(pgs, Tokens(name_norm), 1))
        ByNameOrToken(name_norm, by_name) ==
            IF by_name > 0 THEN by_name ELSE ByToken(name_norm)
        ByName(name_norm) ==
            IF name = <<>> \/ name_norm = <<>> THEN None
            ELSE ByNameOrToken(name_norm,
                     FirstPage([i \in 1..Len(pgs) |->
                                   Contains(Lower(clean_header_text(pgs[i])), name_norm)]))
        ByIdOrName(by_id) ==
            IF by_id > 0 THEN by_id
            ELSE ByName(Lower(Sub(RE_SPACES, <<" ">>, Strip(name))))
    IN IF pgs = <<>> THEN None
       ELSE ByIdOrName(IF id_int # None /\ id_int # 0
                       THEN FirstPage([i \in 1..Len(pgs) |->
                                          parse_ab_header(pgs[i]).id = id_int])
                       ELSE 0)

(***************************************************************************)
(* identify_working_sheets: TOC detection and parsing                      *)
(***************************************************************************)
HEADING_START == <<"U+00DC","b","e","r","s","i","c","h","t"," ",
                   "A","r","b","e","i","t","s","b","l","U+00E4","t","t","e","r">>
HEADING_END == <<"U+00DC","b","e","r","s","i","c","h","t"," ",
                 "I","n","f","o","r","m","a","t","i","o","n","s","b","l","U+00E4","t","t","e","r">>
\* (^|\n)\s*<heading>\s*(\n|$), re.IGNORECASE
HeadingRe(h) ==
    Cat(<<Alt(<<BOS, Lit("\n")>>), Star(Ch(Space)), LitSeq(h, TRUE), Star(Ch(Space)),
          Alt(<<Lit("\n"), EOS>>)>>)
\* the last page number i with hits[i], 0 if none
LastPage(hits) ==
    LET Last(S) == IF S = {} THEN 0 ELSE CHOOSE i \in S : \A j \in S : i >= j
    IN Last({i \in 1..Len(hits) : hits[i]})
\* start_idx + 1 (a page number), 0 for None
TocStart(pgs) ==
    LET OrLast(fwd) ==
            IF fwd > 0 THEN fwd
            ELSE LastPage([i \in 1..Len(pgs) |-> Contains(pgs[i], HEADING_START)])
    IN OrLast(FirstPage([i \in 1..Len(pgs) |->
                            Found(Search(HeadingRe(HEADING_START), pgs[i]))]))
TOC_WINDOW == 8
\* end_idx + 1 (a page number) for a start page > 0
TocEnd(pgs, start) ==
    LET rest == SubSeq(pgs, start, Len(pgs))
        OrWindow(by_in) ==
            IF by_in > 0 THEN start - 1 + by_in ELSE Min(start + TOC_WINDOW, Len(pgs))
        OrIn(by_re) ==
            IF by_re > 0 THEN start - 1 + by_re
            ELSE OrWindow(FirstPage([i \in 1..Len(rest) |-> Contains(rest[i], HEADING_END)]))
    IN OrIn(FirstPage([i \in 1..Len(rest) |->
                          Found(Search(HeadingRe(HEADING_END), rest[i]))]))
RECURSIVE JoinSpace(_)
\* " ".join(texts)
JoinSpace(texts) ==
    IF texts = <<>> THEN <<>>
    ELSE IF Len(texts) = 1 THEN texts[1]
    ELSE texts[1] \o <<" ">> \o JoinSpace(Tail(texts))
\* toc_text
TocText(pgs) ==
    LET From(start) ==
            IF start = 0 THEN <<>>
            ELSE Strip(Sub(RE_SPACES, <<" ">>,
                           ReplaceChar(JoinSpace(SubSeq(pgs, start, TocEnd(pgs, start))),
                                       "U+00A0", " ")))
    IN From(TocStart(pgs))

\* [/\-]
SlashDash == Ch({"/", "-"})
\* \bAB\s*(\d{1,4})\b(?:\s*[/\-]\s*)?, re.IGNORECASE
RE_AB_TOKEN ==
    Cat(<<WB, CI("A"), CI("B"), Star(Ch(Space)), Grp(1, Digits14), WB,
          Opt(Cat(<<Star(Ch(Space)), SlashDash, Star(Ch(Space))>>))>>)
\* (?P<n>.*?)[\s\-\u2013\u2014:]*(?P<p>\d{1,4})\s*$
RE_TRAIL ==
    Cat(<<Grp(1, LazyRep(Ch(AnyChar), 0, 0 - 1)),
          Star(Ch(Space \cup {"-", "U+2013", "U+2014", ":"})),
          Grp(2, Digits14), Star(Ch(Space)), EOS>>)
\* \b(\d{1,4})\b
RE_NUMBER == Cat(<<WB, Grp(1, Digits14), WB>>)
LOOKAHEAD == 250
\* the characters of " \t\-<en dash><em dash>:;,."
NAME_TRIM == {" ", "\t", "\\", "-", "U+2013", "U+2014", ":", ";", ",", "."}
\* the characters of " \t\-<en dash><em dash>:;,"
NAME_TRIM_SCAN == NAME_TRIM \ {"."}

\* the entry of a token with the trailing page number read but left in the name
TocEntryPageLeftInName(toc_text, id_str, start, stop) ==
    LET Entry(raw_name, found, p_candidate) ==
            [id_str |-> id_str, name |-> StripSet(raw_name, NAME_TRIM),
             page |-> IF found /\ IsDigitStr(p_candidate) THEN DecVal(p_candidate) ELSE None]
        Trail(raw_name, m_trail) ==
            Entry(raw_name, Found(m_trail), Strip(Group(raw_name, m_trail, 2)))
        OfRaw(raw_name) == Trail(raw_name, Search(RE_TRAIL, raw_name))
    IN OfRaw(Strip(SubSeq(toc_text, start, stop - 1)))
\* one pass of the loop over the AB tokens of the TOC text: the entry of the
\* token that ends before position start (0-based: toc_text[start:stop])
TocEntry(toc_text, id_str, start, stop) ==
    LET Entry(raw_name, page_num) ==
            [id_str |-> id_str, name |-> StripSet(raw_name, NAME_TRIM), page |-> page_num]
        Ahead(lookahead, m2) == IF Found(m2) THEN DecVal(Group(lookahead, m2, 1)) ELSE None
        PageAhead(lookahead) == Ahead(lookahead, Search(RE_NUMBER, lookahead))
        WithPage(raw_name, page_num) ==
            Entry(raw_name,
                  IF page_num # None THEN page_num
                  ELSE PageAhead(SubSeq(toc_text, start,
                                        Min(Len(toc_text), start + LOOKAHEAD - 1))))
        Split(raw_name, found, name_candidate, p_candidate) ==
            WithPage(IF found /\ name_candidate # <<>> THEN name_candidate ELSE raw_name,
                     IF found /\ IsDigitStr(p_candidate) THEN DecVal(p_candidate) ELSE None)
        Trail(raw_name, m_trail) ==
            Split(raw_name, Found(m_trail), Strip(Group(raw_name, m_trail, 1)),
                  Strip(Group(raw_name, m_trail, 2)))
        OfRaw(raw_name) == Trail(raw_name, Search(RE_TRAIL, raw_name))
    IN OfRaw(Strip(SubSeq(toc_text, start, stop - 1)))
\* entries_found as parsed from the TOC text
ParseToc(toc_text) ==
    LET Entries(matches) ==
            [idx \in 1..Len(matches) |->
                TocEntry(toc_text, Group(toc_text, matches[idx], 1), matches[idx].pos,
                         IF idx < Len(matches) THEN matches[idx + 1].start
                         ELSE Len(toc_text) + 1)]
    IN Entries(FindIter(RE_AB_TOKEN, toc_text, 1))
\* fixed_entries: the entries without a page looked up by header or name
FixEntry(pgs, e) ==
    LET Fixed(found) == IF found # None /\ found # 0 THEN [e EXCEPT !.page = found] ELSE e
        Looked(id_int) ==
            Fixed(find_page_for_entry(pgs, IF id_int # 0 THEN id_int ELSE None, e.name))
    IN IF e.page # None THEN e
       ELSE Looked(coerce_id_to_int(PyStr(e.id_str)))
\* entries_found after the lookup pass
EntriesFound(pgs) ==
    LET Fixed(es) == [i \in 1..Len(es) |-> FixEntry(pgs, es[i])]
    IN Fixed(ParseToc(TocText(pgs)))

\* list(range(start_page, last_page + 1)) if start_page <= last_page else []
PageRange(start_page, last_page) ==
    IF start_page <= last_page THEN [i \in 1..(last_page - start_page + 1) |-> start_page + i - 1]
    ELSE <<>>
AsPyList(ints) == PyList([i \in 1..Len(ints) |-> PyInt(ints[i])])
AB_PREFIX == <<"A", "B", " ">>
RECURSIVE RecordToc(_, _, _)
\* the loop that adds the TOC entries to the model
RecordToc(pgs, es, sh) ==
    IF es = <<>> THEN sh
    ELSE LET e == Head(es)
             start_page == e.page
             name == IF e.name # <<>> THEN e.name ELSE AB_PREFIX \o e.id_str
             PagesOf(current_id) ==
                IF start_page # None /\ start_page # 0
                THEN PageRange(start_page,
                               determine_last_page(pgs, start_page, current_id, PyNone))
                ELSE <<>>
             Added(current_id) ==
                add_working_sheet(sh,
                    IF current_id # 0 THEN PyStr(IntStr(current_id)) ELSE PyStr(e.id_str),
                    name, AsPyList(PagesOf(current_id))).sheets
         IN RecordToc(pgs, Tail(es), Added(coerce_id_to_int(PyStr(e.id_str))))

(***************************************************************************)
(* identify_working_sheets: global scan                                    *)
(***************************************************************************)
\* \bAB\s*(\d{1,4})\b(?:\s*[/\-]\s*)?(.+?)\s+(\d{1,4})\b, re.IGNORECASE
RE_GLOBAL ==
    Cat(<<WB, CI("A"), CI("B"), Star(Ch(Space)), Grp(1, Digits14), WB,
          Opt(Cat(<<Star(Ch(Space)), SlashDash, Star(Ch(Space))>>)),
          Grp(2, LazyRep(Ch(AnyChar), 1, 0 - 1)), Plus(Ch(Space)), Grp(3, Digits14), WB>>)
RECURSIVE ScanMatches(_, _, _, _)
\* the inner loop of the global scan over the matches ms of the page text txt;
\* acc is [sheets, ids]: the model and existing_ids
ScanMatches(pgs, txt, ms, acc) ==
    IF ms = <<>> THEN acc
    ELSE LET m == Head(ms)
             start_page == DecVal(Group(txt, m, 3))
             OrNothing(found) == IF found # None /\ found # 0 THEN <<found>> ELSE <<>>
             PagesOf(id_int, name) ==
                IF start_page # 0
                THEN PageRange(start_page,
                               determine_last_page(pgs, start_page, id_int, PyNone))
                ELSE OrNothing(find_page_for_entry(pgs, IF id_int # 0 THEN id_int ELSE None,
                                                   name))
             Added(id_int, name) ==
                IF id_int \in acc.ids THEN acc
                ELSE [sheets |-> add_working_sheet(acc.sheets, PyStr(IntStr(id_int)), name,
                                                   AsPyList(PagesOf(id_int, name))).sheets,
                      ids |-> acc.ids \cup {id_int}]
         IN ScanMatches(pgs, txt, Tail(ms),
                        Added(coerce_id_to_int(PyStr(Group(txt, m, 1))),
                              StripSet(Strip(Group(txt, m, 2)), NAME_TRIM_SCAN)))
RECURSIVE ScanPages(_, _, _)
\* the outer loop of the global scan from page p_idx on
ScanPages(pgs, p_idx, acc) ==
    IF p_idx > Len(pgs) THEN acc
    ELSE ScanPages(pgs, p_idx + 1,
                   ScanMatches(pgs, pgs[p_idx], FindIter(RE_GLOBAL, pgs[p_idx], 1), acc))
\* a scan that starts with no id seen
GlobalScanNoneSeen(pgs, sh) == ScanPages(pgs, 1, [sheets |-> sh, ids |-> {}]).sheets
\* the model after the global scan
GlobalScan(pgs, sh) == ScanPages(pgs, 1, [sheets |-> sh, ids |-> DOMAIN sh]).sheets

(***************************************************************************)
(* identify_working_sheets: header pass                                    *)
(***************************************************************************)
\* hdr or 0
OrZero(x) == IF x = None THEN 0 ELSE x
SPARSE_DIVISOR == 30
\* header_map, after the relaxed scan of a sparse map
HeaderMap(pgs) ==
    LET Relaxed(hm) ==
            IF Cardinality({i \in 1..Len(pgs) : hm[i] # 0})
                  < Max(2, Len(pgs) \div SPARSE_DIVISOR)
            THEN [i \in 1..Len(pgs) |->
                    IF hm[i] = 0 THEN OrZero(parse_ab_header(pgs[i]).id) ELSE hm[i]]
            ELSE hm
    IN Relaxed([i \in 1..Len(pgs) |-> OrZero(header_ab_on_page(pgs[i]))])
\* a run that ends on its first page
RunEndAtStart(header_map, cur, j) == j
RECURSIVE RunEnd(_, _, _)
\* the contiguous detection: the first index j >= the given one (0-based) with
\* header_map[j] # cur, or total_pages
RunEnd(header_map, cur, j) ==
    IF j < Len(header_map) /\ header_map[j + 1] = cur THEN RunEnd(header_map, cur, j + 1)
    ELSE j
\* an end page that is not held within the document
PairEndNotClamped(start, total_pages, h) == Max(start, start + (h.total - h.curr))
\* end_page of a block whose start page gives the pair h.curr/h.total
PairEnd(start, total_pages, h) == Max(start, Min(total_pages, start + (h.total - h.curr)))
RECURSIVE BuildBlocks(_, _, _)
\* the while loop that builds blocks, from the 0-based index i on
BuildBlocks(pgs, header_map, i) ==
    LET total_pages == Len(pgs)
        cur == header_map[i + 1]
        start == i + 1
        To(end_page) ==
            <<[id |-> cur, start |-> start, end |-> end_page]>>
                \o BuildBlocks(pgs, header_map, end_page)
        From(h) ==
            IF h.curr # None /\ h.curr # 0 /\ h.total # None /\ h.total # 0
            THEN To(PairEnd(start, total_pages, h))
            ELSE To(RunEnd(header_map, cur, i + 1))
    IN IF i >= total_pages THEN <<>>
       ELSE IF cur > 0 THEN From(parse_ab_header(pgs[start]))
       ELSE BuildBlocks(pgs, header_map, i + 1)
\* blocks
Blocks(pgs) == BuildBlocks(pgs, HeaderMap(pgs), 0)

RECURSIVE TocNameLookup(_, _)
\* toc_name_by_id.get(id_int): the name of the last entry with that id, <<>> if none
TocNameLookup(es, id_int) ==
    IF es = <<>> THEN <<>>
    ELSE IF coerce_id_to_int(PyStr(es[Len(es)].id_str)) = id_int THEN es[Len(es)].name
    ELSE TocNameLookup(SubSeq(es, 1, Len(es) - 1), id_int)
\* \bAB\s*<id>\s*[/\-]\s*(.+?)(?:\n|$), re.IGNORECASE
NameSearchRe(id_int) ==
    Cat(<<WB, CI("A"), CI("B"), Star(Ch(Space)), LitSeq(IntStr(id_int), FALSE),
          Star(Ch(Space)), SlashDash, Star(Ch(Space)),
          Grp(1, LazyRep(Ch(AnyChar), 1, 0 - 1)), Alt(<<Lit("\n"), EOS>>)>>)
\* found_name of the pages around the block, <<>> if none
NameNearBlock(pgs, id_int, start_page, end_page) ==
    LET lo == Max(1, start_page - 1)
        hi == Min(Len(pgs), end_page + 2) - 1
        window == SubSeq(pgs, lo, hi)
        Name(cleaned, m) == StripSet(Strip(Group(cleaned, m, 1)), NAME_TRIM)
        NameIn(cleaned) == Name(cleaned, Search(NameSearchRe(id_int), cleaned))
        OnPage(k) == IF k = 0 THEN <<>> ELSE NameIn(clean_header_text(window[k]))
    IN OnPage(FirstPage([k \in 1..Len(window) |->
                            Found(Search(NameSearchRe(id_int),
                                         clean_header_text(window[k])))]))
\* the name under which the header pass stores a block
BlockName(pgs, es, sh, b) ==
    LET OrPrefix(near) == IF near # <<>> THEN near ELSE AB_PREFIX \o IntStr(b.id)
        \* the first stored name of the id, unless there is none or it is empty
        OrNear(names_map) ==
            IF names_map # <<>> /\ names_map[1].name # <<>> THEN names_map[1].name
            ELSE OrPrefix(NameNearBlock(pgs, b.id, b.start, b.end))
        OrStored(toc_name) ==
            IF toc_name # <<>> THEN toc_name ELSE OrNear(Bucket(sh, b.id))
    IN OrStored(TocNameLookup(es, b.id))
\* whether the header pass skips block b
BlockSkipped(sh, b) ==
    LET already == existing_pages_for_id(sh, b.id)
    IN \/ b.id <= 0
       \/ b.end < b.start
       \/ (b.start..b.end) \subseteq already /\ already # {}
RECURSIVE RecordBlocksFrom(_, _, _, _)
\* the loop over the blocks bs; acc is [sheets, recorded]: the model and the
\* blocks that reached add_working_sheet
RecordBlocksFrom(pgs, es, bs, acc) ==
    IF bs = <<>> THEN acc
    ELSE LET b == Head(bs)
             sh == acc.sheets
         IN RecordBlocksFrom(pgs, es, Tail(bs),
                IF BlockSkipped(sh, b) THEN acc
                ELSE [sheets |-> add_working_sheet(sh, PyStr(IntStr(b.id)),
                                                   BlockName(pgs, es, sh, b),
                                                   AsPyList(PageRange(b.start, b.end))).sheets,
                      recorded |-> Append(acc.recorded, b)])
\* the model after the loop that adds the blocks bs
RecordBlocks(pgs, es, bs, sh) ==
    RecordBlocksFrom(pgs, es, bs, [sheets |-> sh, recorded |-> <<>>]).sheets

\* the model after the TOC pass, after the global scan and after the header pass
AfterToc(pgs, sh) == RecordToc(pgs, EntriesFound(pgs), sh)
AfterScan(pgs, sh) == GlobalScan(pgs, AfterToc(pgs, sh))
AfterHeaders(pgs, sh) == RecordBlocks(pgs, EntriesFound(pgs), Blocks(pgs), AfterScan(pgs, sh))
\* the model without its sheets
ModelReset(sh) == NoSheets
\* return self.pdf_object, when there are no pages
ReturnedWithoutPages(sh) == sh
\* identify_working_sheets(): the model it returns
identify_working_sheets(pgs, sh) ==
    IF pgs = <<>> THEN ReturnedWithoutPages(sh) ELSE AfterHeaders(pgs, sh)

(***************************************************************************)
(* Specification of the document model: a document is created empty and    *)
(* then changed by add_working_sheet calls, assignments to working_sheets  *)
(* and replaced by documents built by from_dict, in any order.             *)
(***************************************************************************)
MaxOps == 2
MaxPagesLen == 2

NoOp == [op |-> "init"]
\* the variables of the handler, idle
HandlerIdle ==
    /\ pages = <<>> /\ given = NoSheets /\ pc = "idle" /\ entries = <<>> /\ blocks = <<>>
    /\ run = 0
HandlerUnchanged == UNCHANGED <<pages, given, pc, entries, blocks, run>>
FunctionIdle == fin = <<>> /\ fout = <<>>
DocIdle == sheets = NoSheets /\ err = "none" /\ last = NoOp /\ before = NoSheets /\ nops = 0

NAME_A == <<"a">>
NAME_B == <<"b">>
IdInputs == {PyInt(1), PyStr(<<"2">>), PyStr(<<"1", "b">>), PyNone, PyInt(0 - 5)}
NameInputs == {NAME_A, NAME_B, <<>>}
\* page entries that int() turns into 1, 3, 2 and 2, and entries that are dropped
ValidAtoms == {PyInt(1), PyInt(3), PyStr(<<"2">>), PyFloat(25)}
InvalidAtoms == {PyInt(0), PyStr(<<"x">>)}
SeqsUpTo(S, n) == UNION {[1..k -> S] : k \in 0..n}
PageInputs ==
    {PyList(xs) : xs \in SeqsUpTo(ValidAtoms, MaxPagesLen)}
    \cup {PyList(<<bad>> \o xs) : bad \in InvalidAtoms, xs \in SeqsUpTo(ValidAtoms, MaxPagesLen - 1)}
    \cup {PyNone}

\* stored data: the values found where a page list is expected, ...
StoredPages == {PyList(<<PyInt(3), PyInt(1)>>), PyList(<<PyInt(2), PyStr(<<"x">>), PyInt(2)>>),
                PyList(<<>>), PyInt(5), PyStr(<<"1", "2">>), PyNone}
\* ... where the names of an id are expected, ...
StoredNames ==
    {PyDict(<<KV(PyStr(NAME_A), pv)>>) : pv \in StoredPages}
    \cup {PyDict(<<KV(PyStr(NAME_B), PyList(<<PyInt(2)>>)), KV(PyStr(NAME_A), pv)>>) :
            pv \in StoredPages}
    \cup {PyList(<<PyInt(1)>>), PyDict(<<>>)}
\* ... and where the mapping of the ids is expected
StoredIds == {PyStr(<<"1">>), PyInt(2), PyStr(<<"x">>)}
StoredSheets ==
    {PyDict(<<KV(k, nv)>>) : k \in StoredIds, nv \in StoredNames}
    \cup {PyDict(<<KV(PyStr(<<"2">>), nv), KV(PyStr(<<"1">>), PyDict(<<KV(PyStr(NAME_A), PyList(<<PyInt(1)>>))>>))>>) :
            nv \in StoredNames}
    \cup {PyList(<<PyInt(1)>>), PyNone}
StoredData ==
    {PyDict(<<KV(PyStr(WORKING_SHEETS), ws)>>) : ws \in StoredSheets}
    \cup {PyDict(<<>>)}

DocInit == DocIdle /\ HandlerIdle /\ FunctionIdle

AddWorkingSheet ==
    /\ nops < MaxOps
    /\ \E id_ \in IdInputs, name \in NameInputs, pgs \in PageInputs :
           \E r \in {add_working_sheet(sheets, id_, name, pgs)} :
              /\ sheets' = r.sheets
              /\ err' = r.err
              /\ last' = [op |-> "add", id |-> id_, name |-> name, pages |-> pgs]
              /\ before' = sheets
              /\ nops' = nops + 1
              /\ HandlerUnchanged /\ UNCHANGED <<fin, fout>>
SetWorkingSheets ==
    /\ nops < MaxOps
    /\ \E value \in StoredSheets :
           \E r \in {set_working_sheets(sheets, value)} :
              /\ sheets' = r.sheets
              /\ err' = r.err
              /\ last' = [op |-> "set", value |-> value]
              /\ before' = sheets
              /\ nops' = nops + 1
              /\ HandlerUnchanged /\ UNCHANGED <<fin, fout>>
\* doc = PdfDocument.from_dict(data): the document is the new one, unless the
\* call raised
FromDict ==
    /\ nops < MaxOps
    /\ \E data \in StoredData :
           \E r \in {from_dict(data)} :
              /\ sheets' = IF r.err = "none" THEN r.sheets ELSE sheets
              /\ err' = r.err
              /\ last' = [op |-> "from_dict", data |-> data]
              /\ before' = sheets
              /\ nops' = nops + 1
              /\ HandlerUnchanged /\ UNCHANGED <<fin, fout>>
DocNext == AddWorkingSheet \/ SetWorkingSheets \/ FromDict
Spec == DocInit /\ [][DocNext]_vars

\* doc = PdfDocument.from_dict(doc.to_dict()): the document saved and loaded
RoundTrip ==
    \E r \in {from_dict(PyDict(<<KV(PyStr(WORKING_SHEETS), to_dict(sheets))>>))} :
        /\ sheets' = IF r.err = "none" THEN r.sheets ELSE sheets
        /\ err' = r.err
        /\ last' = [op |-> "roundtrip"]
        /\ before' = sheets
        /\ HandlerUnchanged /\ UNCHANGED <<nops, fin, fout>>
\* a document built by add_working_sheet calls only, saved and loaded at any time
RoundTripNext == AddWorkingSheet \/ RoundTrip
RoundTripSpec == DocInit /\ [][RoundTripNext]_vars

(***************************************************************************)
(* Claims about the document model                                         *)
(***************************************************************************)
\* the pages of a call that are valid: those int() turns into an integer > 0
ValidPages(pgs) ==
    LET elems == Range(IterElems(OrEmptyList(pgs)))
    IN {IntOf(x).v : x \in {e \in elems : IntOf(e).ok /\ IntOf(e).v > 0}}
PagesNow == get_pages(sheets, last.id, last.name)
PagesWas == get_pages(before, last.id, last.name)

\* C1: after add_working_sheet(id, name, pages) with a non-empty name the pages
\* stored for (id, name) are exactly the union of the pages stored before and
\* the valid pages of the call, no page twice, and the same call again changes
\* nothing.
C1_AddIsSetUnion ==
    (last.op = "add" /\ last.name # <<>>) =>
        /\ err = "none"
        /\ Range(PagesNow) = Range(PagesWas) \cup ValidPages(last.pages)
        /\ Cardinality(Range(PagesNow)) = Len(PagesNow)
        /\ add_working_sheet(sheets, last.id, last.name, last.pages).sheets = sheets
\* a merge into stored pages: some kept only from before, some shared, some new
C1_Witness ==
    /\ last.op = "add" /\ last.name # <<>>
    /\ Range(PagesWas) \ ValidPages(last.pages) # {}
    /\ Range(PagesWas) \cap ValidPages(last.pages) # {}
    /\ ValidPages(last.pages) \ Range(PagesWas) # {}

StrictlyAscending(ps) == \A i \in 1..(Len(ps) - 1) : ps[i] < ps[i + 1]
\* C2: every page list stored in the model is strictly ascending (sorted, no
\* duplicates), whatever sequence of add_working_sheet calls, working_sheets
\* assignments and from_dict constructions produced it.
C2_PagesStrictlyAscending ==
    \A id \in DOMAIN sheets : \A k \in 1..Len(sheets[id]) :
        StrictlyAscending(sheets[id][k].pages)
\* a second operation of another kind that stored an unsorted input as 1, 3
C2_Witness ==
    /\ nops = 2 /\ last.op \in {"set", "from_dict"} /\ before # NoSheets /\ err = "none"
    /\ \E id \in DOMAIN sheets : \E k \in 1..Len(sheets[id]) :
          sheets[id][k].pages = <<1, 3>>

\* the stored data without its malformed parts: the ids whose value is a
\* dictionary, and of their names those whose value is a list
WellFormedNames(names) == PyDict(SelectSeq(names.v, LAMBDA kv : kv.val.k = "list"))
WellFormedSheets(ws) ==
    LET good == SelectSeq(ws.v, LAMBDA kv : IsDict(kv.val))
    IN PyDict([i \in 1..Len(good) |-> KV(good[i].key, WellFormedNames(good[i].val))])
WellFormedData(data) ==
    IF IsDict(data) /\ IsDict(DictGet(data, WORKING_SHEETS))
    THEN PyDict(<<KV(PyStr(WORKING_SHEETS), WellFormedSheets(DictGet(data, WORKING_SHEETS)))>>)
    ELSE PyDict(<<>>)
\* C10: from_dict never raises on malformed stored data: a value that is not a
\* dictionary where one is expected, or a page value that is not a list, is
\* skipped, and the well-formed entries are loaded.
C10_FromDictSkipsMalformed ==
    last.op = "from_dict" =>
        /\ err = "none"
        /\ sheets = from_dict(WellFormedData(last.data)).sheets

\* C16: id coercion raises nothing and gives an integer >= 0, so after any
\* sequence of add_working_sheet and from_dict calls with arbitrary ids every
\* key of the sheets mapping is an integer >= 0.
C16_IdsNotNegative ==
    /\ \A id \in DOMAIN sheets : id \in Nat
    /\ last.op = "add" => err = "none" /\ coerce_id_to_int(last.id) \in Nat

\* the entries of a model that have pages, under their ids and in their order
EntriesWithPages(sh) ==
    [id \in {i \in DOMAIN sh : \E k \in 1..Len(sh[i]) : sh[i][k].pages # <<>>} |->
        SelectSeq(sh[id], LAMBDA e : e.pages # <<>>)]
\* C19: for a model m built by add_working_sheet calls, from_dict(to_dict(m))
\* holds exactly the (id, name, pages) entries of m that have a non-empty
\* page list, with the same ids, names and page lists; entries recorded
\* with an empty page list are not in it.
C19_RoundTripKeepsEntriesWithPages ==
    last.op = "roundtrip" =>
        /\ err = "none"
        /\ sheets = EntriesWithPages(before)
\* a model of two adds, one with an empty page list and one with two pages,
\* saved and loaded
C19_Witness ==
    /\ last.op = "roundtrip" /\ nops = 2
    /\ \E id \in DOMAIN before : \E k \in 1..Len(before[id]) : before[id][k].pages = <<>>
    /\ \E id \in DOMAIN sheets : \E k \in 1..Len(sheets[id]) : Len(sheets[id][k].pages) = 2
    /\ sheets # before

(***************************************************************************)
(* Specifications of single functions: the arguments are drawn from fin's  *)
(* initial values, the call stores the result in fout.                     *)
(***************************************************************************)
FunctionCall(result) ==
    /\ pc = "call"
    /\ fout' = result
    /\ pc' = "return"
    /\ UNCHANGED <<sheets, err, last, before, nops, pages, given, entries, blocks, run, fin>>
FunctionInit ==
    /\ DocIdle /\ given = NoSheets /\ entries = <<>> /\ blocks = <<>> /\ run = 0
    /\ pc = "call" /\ fout = <<>>

\* header texts 'AB <n><separator><NAME>  <a>/<b>'
ZWANGSGEDANKEN == <<"Z","w","a","n","g","s","g","e","d","a","n","k","e","n">>
HeaderIds == {<<"2", "2">>, <<"5">>}
HeaderSeparators == {<<" ">>, <<" ", "/", " ">>, <<" ", "-", " ">>, <<" ", ":", " ">>}
HeaderNames == {ZWANGSGEDANKEN, <<"A","n","g","s","t"," ","S","k","a","l","a">>, <<"P","l","a","n">>}
HeaderPairs == {<<<<"1">>, <<"2">>>>, <<<<"2">>, <<"3">>>>, <<<<"1", "0">>, <<"1", "2">>>>}
HeaderInputs ==
    [n : HeaderIds, sep : HeaderSeparators, name : HeaderNames, pair : HeaderPairs]
HeaderText(h) ==
    <<"A", "B", " ">> \o h.n \o h.sep \o h.name \o <<" ", " ">>
        \o h.pair[1] \o <<"/">> \o h.pair[2]
HeaderInit == FunctionInit /\ pages = <<>> /\ fin \in HeaderInputs
ParseHeader == FunctionCall(parse_ab_header(HeaderText(fin)))
HeaderSpec == HeaderInit /\ [][ParseHeader]_vars

\* C7: for a header 'AB <n> <separator> <NAME> <a>/<b>' parse_header returns
\* id n, current a, total b and the name NAME without the separator before it.
C7_HeaderFieldsParsed ==
    pc = "return" =>
        fout = [id |-> DecVal(fin.n), name |-> fin.name,
                curr |-> DecVal(fin.pair[1]), total |-> DecVal(fin.pair[2])]

\* TOC blobs 'AB <id> <name> <page>' ... of up to MaxTocEntries entries
MaxTocEntries == 2
ANGSTSKALA == <<"A","n","g","s","t","s","k","a","l","a">>
VERMEIDUNGSLISTE == <<"V","e","r","m","e","i","d","u","n","g","s","l","i","s","t","e">>
TocIds == {<<"5">>, <<"1", "2">>}
TocNames == {<<"S","k","a","l","a">>, <<"M","e","i","n"," ","P","l","a","n">>,
             <<"P","l","a","n"," ","A","B">>}
TocPageNumbers == {<<"1", "2">>, <<"3">>}
TocInputEntries == [id : TocIds, name : TocNames, page : TocPageNumbers]
TocScenario ==
    <<[id |-> <<"5">>, name |-> ANGSTSKALA, page |-> <<"1", "2">>],
      [id |-> <<"6">>, name |-> VERMEIDUNGSLISTE, page |-> <<"1", "5">>]>>
TocInputs ==
    UNION {[1..k -> TocInputEntries] : k \in 1..MaxTocEntries} \cup {TocScenario}
TocEntryText(e) == <<"A", "B", " ">> \o e.id \o <<" ">> \o e.name \o <<" ">> \o e.page
TocBlob(es) == JoinSpace([i \in 1..Len(es) |-> TocEntryText(es[i])])
TocInit == FunctionInit /\ pages = <<>> /\ fin \in TocInputs
ParseTocBlob == FunctionCall(ParseToc(TocBlob(fin)))
TocSpec == TocInit /\ [][ParseTocBlob]_vars

TocExpected(es) ==
    [i \in 1..Len(es) |->
        [id_str |-> es[i].id, name |-> es[i].name, page |-> DecVal(es[i].page)]]
\* the last word of the name is AB, in either case of its letters
EndsWithWordAB(name) ==
    /\ Len(name) >= 2
    /\ Lower(SubSeq(name, Len(name) - 1, Len(name))) = <<"a", "b">>
    /\ (Len(name) = 2 \/ name[Len(name) - 2] \notin WordChar)
\* C8 as stated: a blob of k entries 'AB <id> <name> <page>' with names without
\* digits is parsed into exactly these k entries, in blob order.
C8_TocEntriesParsed == pc = "return" => fout = TocExpected(fin)
\* C8 as amended: the same, for names whose last word is not AB (which, with
\* the page number after it, is itself an 'AB <n>' token).
C8_TocEntriesParsedUnlessNameEndsWithAB ==
    (pc = "return" /\ \A i \in 1..Len(fin) : ~EndsWithWordAB(fin[i].name)) =>
        fout = TocExpected(fin)
\* the blob "AB 5 Angstskala 12 AB 6 Vermeidungsliste 15" parsed into its two entries
C8_Witness ==
    /\ pc = "return" /\ fin = TocScenario
    /\ fout = <<[id_str |-> <<"5">>, name |-> ANGSTSKALA, page |-> 12],
                 [id_str |-> <<"6">>, name |-> VERMEIDUNGSLISTE, page |-> 15]>>

\* determine_last_page on documents of 1 to MaxLastDocPages pages (the callers
\* in identify_working_sheets run only when there are pages)
MaxLastDocPages == 3
MaxStartPage == 4
LastPageTexts == {<<"x">>, <<"A", "B", " ", "7">>, <<"A", "B", " ", "8">>,
                  <<"1", "/", "2">>, <<"2", "/", "9">>}
LastPageInputs ==
    [start_page : 0..MaxStartPage, current_id : {None, 7}, max_scan : {PyNone, PyInt(1)}]
LastPageInit ==
    /\ FunctionInit
    /\ pages \in SeqsUpTo(LastPageTexts, MaxLastDocPages) \ {<<>>}
    /\ fin \in LastPageInputs
DetermineLastPage ==
    FunctionCall(determine_last_page(pages, fin.start_page, fin.current_id, fin.max_scan))
LastPageSpec == LastPageInit /\ [][DetermineLastPage]_vars

\* C3: for any start_page, current_id, max_scan and page contents the end page
\* returned by determine_last_page lies in [start_page, document length].
C3_LastPageWithinBounds ==
    pc = "return" => fin.start_page <= fout /\ fout <= Len(pages)

(***************************************************************************)
(* The handler: identify_working_sheets() pass by pass, on the pages read  *)
(* at construction and the model given to the constructor, and called      *)
(* again on the model it returned                                          *)
(***************************************************************************)
MaxDocPages == 3
MaxRuns == 2
\* "Übersicht Arbeitsblätter\nAB 7 Plan 3"
TOC_PAGE == HEADING_START \o <<"\n", "A", "B", " ", "7", " ", "P", "l", "a", "n", " ", "3">>
\* "Übersicht Arbeitsblätter\nAB 7 Plan 3\nAB 8"
TOC_PAGE_OPEN == TOC_PAGE \o <<"\n", "A", "B", " ", "8">>
PageTexts ==
    {<<"x">>, <<"A", "B", " ", "7">>, <<"A", "B", " ", "8">>,
     <<"A", "B", " ", "7", " ", "1", "/", "2">>,
     <<"A", "B", " ", "9", " ", "L", "i", "s", "t", "e", " ", "2">>,
     <<"A", "B", " ", "8", " ", "a", " ", "0">>, TOC_PAGE,
     TOC_PAGE_OPEN}
\* self.pages: what read_pdf returned, nothing when reading failed
Documents == SeqsUpTo(PageTexts, MaxDocPages)
\* the models given to the constructor: a new one, two with a sheet added, and
\* one assigned with a sheet whose name is empty
GivenModels ==
    {NoSheets,
     add_working_sheet(NoSheets, PyInt(7), NAME_A, PyList(<<PyInt(9)>>)).sheets,
     add_working_sheet(NoSheets, PyInt(9), NAME_A, PyList(<<PyInt(1)>>)).sheets,
     set_working_sheets(NoSheets,
         PyDict(<<KV(PyInt(7), PyDict(<<KV(PyStr(<<>>), PyList(<<PyInt(5)>>))>>))>>)).sheets}
HandlerInit ==
    /\ pages \in Documents
    /\ sheets \in GivenModels
    /\ given = sheets /\ before = sheets
    /\ pc = "idle" /\ run = 0 /\ entries = <<>> /\ blocks = <<>>
    /\ err = "none" /\ last = NoOp /\ nops = 0
    /\ FunctionIdle
\* identify_working_sheets() without pages
ReturnNoPages ==
    /\ pc = "idle" /\ run < MaxRuns /\ pages = <<>>
    /\ sheets' = ReturnedWithoutPages(sheets)
    /\ before' = sheets
    /\ last' = [op |-> "nopages"]
    /\ run' = run + 1
    /\ UNCHANGED <<err, nops, pages, given, pc, entries, blocks, fin, fout>>
\* TOC detection, parsing and recording
TocPass ==
    /\ pc = "idle" /\ run < MaxRuns /\ pages # <<>>
    /\ entries' = EntriesFound(pages)
    /\ sheets' = RecordToc(pages, entries', sheets)
    /\ before' = sheets
    /\ last' = [op |-> "toc"]
    /\ pc' = "scan"
    /\ UNCHANGED <<err, nops, pages, given, blocks, run, fin, fout>>
\* the global scan
ScanPass ==
    /\ pc = "scan"
    /\ sheets' = GlobalScan(pages, sheets)
    /\ before' = sheets
    /\ last' = [op |-> "scan"]
    /\ pc' = "header"
    /\ UNCHANGED <<err, nops, pages, given, entries, blocks, run, fin, fout>>
\* the header pass, and the return of the model
HeaderPass ==
    /\ pc = "header"
    /\ blocks' = Blocks(pages)
    /\ \E r \in {RecordBlocksFrom(pages, entries, blocks',
                                    [sheets |-> sheets, recorded |-> <<>>])} :
          /\ sheets' = r.sheets
          /\ last' = [op |-> "header", recorded |-> r.recorded]
    /\ before' = sheets
    /\ pc' = "idle"
    /\ run' = run + 1
    /\ UNCHANGED <<err, nops, pages, given, entries, fin, fout>>
HandlerNext == ReturnNoPages \/ TocPass \/ ScanPass \/ HeaderPass
HandlerSpec == HandlerInit /\ [][HandlerNext]_vars

\* the (id, name, page) triples of a model
Triples(sh) ==
    UNION {UNION {{<<id, sh[id][i].name, sh[id][i].pages[k]>> :
                      k \in 1..Len(sh[id][i].pages)} :
                  i \in 1..Len(sh[id])} :
           id \in DOMAIN sh}
\* C5: the passes run in the order TOC, global scan, header blocks, and every
\* (id, name, page) triple of the model before a pass is in the model after it.
C5_PassesInOrderModelGrows ==
    [][/\ Triples(sheets) \subseteq Triples(sheets')
       /\ last'.op = "toc" => pc = "idle" /\ last.op \in {"init", "header"}
       /\ last'.op = "scan" => last.op = "toc"
       /\ last'.op = "header" => last.op = "scan"
       /\ pc' = "idle" => last'.op \in {"header", "nopages"}]_vars
\* a run in which the TOC pass or the global scan added to the given sheet and
\* the header pass added to that
C5_Witness ==
    /\ last.op = "header" /\ run = 1
    /\ Triples(given) # {} /\ Triples(given) # Triples(before)
    /\ Triples(given) \subseteq Triples(before)
    /\ Triples(before) # Triples(sheets)
    /\ Triples(before) \subseteq Triples(sheets)

\* the pages stored under an id of a model
PagesUnderId(sh, id) == {t[3] : t \in {u \in Triples(sh) : u[1] = id}}
\* C4: the header pass of a second run, on the model the first run returned,
\* adds no page: every block has its page range stored under its id and none
\* reaches add_working_sheet.
C4_SecondHeaderPassAddsNothing ==
    /\ (run = 1 /\ last.op \in {"toc", "scan"}) => sheets = before
    /\ (last.op = "header" /\ run = 2) =>
        /\ Triples(sheets) = Triples(before)
        /\ last.recorded = <<>>
        /\ \A i \in 1..Len(blocks) :
              (blocks[i].start..blocks[i].end) \subseteq PagesUnderId(before, blocks[i].id)
\* a second run over pages with a block whose pages the first run stored
C4_Witness ==
    /\ last.op = "header" /\ run = 2 /\ blocks # <<>>
    /\ \E i \in 1..Len(blocks) :
          ~((blocks[i].start..blocks[i].end) \subseteq PagesUnderId(given, blocks[i].id))
    /\ sheets = before

\* C6: without pages identify_working_sheets returns the model it was given
\* with the sheets unchanged (none, for a new model), and raises nothing.
C6_NoPagesModelUnchanged ==
    (pages = <<>> /\ run >= 1) =>
        /\ sheets = given
        /\ given = NoSheets => DOMAIN sheets = {}
        /\ err = "none"
        /\ pc = "idle" /\ last.op = "nopages"
\* the call without pages has returned a model that had a sheet
C6_Witness ==
    /\ pages = <<>> /\ run >= 1 /\ last.op = "nopages"
    /\ given # NoSheets /\ sheets = given

\* the matches of the global scan on the pages, as [id, name, page]
GlobalMatches(pgs) ==
    UNION {{[id |-> coerce_id_to_int(PyStr(Group(pgs[p], m, 1))),
             name |-> StripSet(Strip(Group(pgs[p], m, 2)), NAME_TRIM_SCAN),
             page |-> DecVal(Group(pgs[p], m, 3))] :
               m \in Range(FindIter(RE_GLOBAL, pgs[p], 1))} : p \in 1..Len(pgs)}
\* C11: the global scan leaves the names and pages of every id that is a bucket
\* of the model when the scan starts as they are; what it adds are buckets of
\* ids that were absent.
C11_ScanKeepsExistingBuckets ==
    last.op = "scan" =>
        \A id \in DOMAIN before : id \in DOMAIN sheets /\ sheets[id] = before[id]
\* the scan met a match for an id that was a bucket, under a name the bucket
\* does not have
C11_Witness ==
    /\ last.op = "scan"
    /\ \E g \in GlobalMatches(pages) :
          /\ g.id \in DOMAIN before /\ g.name # <<>>
          /\ NameIndex(before[g.id], g.name) = 0

\* the id and the name under which the TOC pass records an entry
EntryId(e) == coerce_id_to_int(PyStr(e.id_str))
EntryName(e) == IF e.name # <<>> THEN e.name ELSE AB_PREFIX \o e.id_str
\* C12: after the TOC pass every entry parsed from the TOC region is in the
\* model under its id, with a non-empty name; an entry for which neither the
\* TOC text nor the lookup gave a page is stored with an empty page list
\* (unless the same id and name had pages from before or from another entry).
C12_TocEntriesRecorded ==
    last.op = "toc" =>
        \A i \in 1..Len(entries) :
            /\ EntryId(entries[i]) \in DOMAIN sheets
            /\ EntryName(entries[i]) # <<>>
            /\ NameIndex(sheets[EntryId(entries[i])], EntryName(entries[i])) > 0
            /\ (/\ entries[i].page = None
                /\ get_pages(before, PyInt(EntryId(entries[i])), EntryName(entries[i])) = <<>>
                /\ \A j \in 1..Len(entries) :
                      (EntryId(entries[j]) = EntryId(entries[i])
                         /\ EntryName(entries[j]) = EntryName(entries[i]))
                      => entries[j].page = None)
               => get_pages(sheets, PyInt(EntryId(entries[i])), EntryName(entries[i])) = <<>>
\* the TOC pass recorded an entry with a page and an entry without a name for
\* which no page was found, the latter as 'AB 8' with no pages
C12_Witness ==
    /\ last.op = "toc"
    /\ \E i, j \in 1..Len(entries) :
          /\ entries[i].page # None /\ entries[i].name # <<>>
          /\ get_pages(sheets, PyInt(EntryId(entries[i])), entries[i].name) # <<>>
          /\ entries[j].page = None /\ entries[j].name = <<>>
          /\ EntryId(entries[j]) \notin DOMAIN before
          /\ sheets[EntryId(entries[j])] = <<[name |-> <<"A", "B", " ", "8">>, pages |-> <<>>]>>

\* a page number that is not a page of the document
OutsideDocument(page) == page = None \/ page < 1 \/ page > Len(pages)
\* C17: starting from an empty model, every page number stored by the passes
\* of identify_working_sheets is a page of the document; a TOC entry or a
\* global-scan match whose page number is outside the document is stored
\* with an empty page list.  The global scan tests the captured number with
\* 'if start_page:', so that a match with the page number 0 goes to
\* _find_page_for_entry and is stored with the page found there.
C17_StoredPagesWithinDocument ==
    given = NoSheets =>
        /\ \A t \in Triples(sheets) : t[3] \in 1..Len(pages)
        /\ (last.op = "toc" /\ run = 0) =>
              \A i \in 1..Len(entries) :
                  (\A j \in 1..Len(entries) :
                      (EntryId(entries[j]) = EntryId(entries[i])
                         /\ EntryName(entries[j]) = EntryName(entries[i]))
                      => OutsideDocument(entries[j].page))
                  => get_pages(sheets, PyInt(EntryId(entries[i])), EntryName(entries[i])) = <<>>
        /\ (last.op = "scan" /\ run = 0) =>
              \A g \in GlobalMatches(pages) :
                  (/\ g.id \notin DOMAIN before
                   /\ \A g2 \in GlobalMatches(pages) :
                         g2.id = g.id => OutsideDocument(g2.page))
                  => \A k \in 1..Len(Bucket(sheets, g.id)) :
                         Bucket(sheets, g.id)[k].pages = <<>>

\* the block building of the header pass on documents of up to MaxBlockPages
\* pages, and on ten pages with the header AB 7 on pages 3 to 5
MaxBlockPages == 4
BlockTexts ==
    {<<"x">>, <<"A", "B", " ", "7">>, <<"A", "B", " ", "8">>,
     <<"A", "B", " ", "7", " ", "1", "/", "2">>,
     <<"A", "B", " ", "7", " ", "0", "/", "2">>,
     <<"A", "B", " ", "8", " ", "2", "/", "9">>,
     <<"A", "B", " ", "8", " ", "3", "/", "1">>}
TenPages ==
    [i \in 1..10 |-> IF i \in 3..5 THEN <<"A", "B", " ", "7">> ELSE <<"x">>]
BlocksInit ==
    /\ FunctionInit
    /\ pages \in (SeqsUpTo(BlockTexts, MaxBlockPages) \ {<<>>}) \cup {TenPages}
    /\ fin = <<>>
BuildBlocksOfPages == FunctionCall(Blocks(pages))
BlocksSpec == BlocksInit /\ [][BuildBlocksOfPages]_vars

\* the maximal runs s..e of pages with the same nonzero label
MaximalRuns(labels) ==
    {[id |-> labels[s], start |-> s, end |-> e] : <<s, e>> \in
        {r \in (1..Len(labels)) \X (1..Len(labels)) :
            /\ r[1] <= r[2]
            /\ labels[r[1]] # 0
            /\ \A i \in r[1]..r[2] : labels[i] = labels[r[1]]
            /\ r[1] > 1 => labels[r[1] - 1] # labels[r[1]]
            /\ r[2] < Len(labels) => labels[r[2] + 1] # labels[r[1]]}}
\* the text of a page gives a current and a total
CarriesPair(text) ==
    LET h == parse_ab_header(text)
    IN h.curr # None /\ h.curr # 0 /\ h.total # None /\ h.total # 0
\* C9: when no page that starts a run of labels carries a current/total pair,
\* the blocks are the maximal runs of equal nonzero labels, one block each, in
\* page order; the ten pages labelled 7 on pages 3 to 5 give the block (7, 3, 5).
C9_BlocksAreMaximalRuns ==
    pc = "return" =>
        /\ (\A r \in MaximalRuns(HeaderMap(pages)) : ~CarriesPair(pages[r.start])) =>
              /\ Range(fout) = MaximalRuns(HeaderMap(pages))
              /\ Len(fout) = Cardinality(MaximalRuns(HeaderMap(pages)))
              /\ \A i \in 1..(Len(fout) - 1) : fout[i].end < fout[i + 1].start
        /\ pages = TenPages => fout = <<[id |-> 7, start |-> 3, end |-> 5]>>
\* the ten pages have given their one block
C9_Witness ==
    /\ pc = "return" /\ pages = TenPages
    /\ HeaderMap(pages) = [i \in 1..10 |-> IF i \in 3..5 THEN 7 ELSE 0]
    /\ fout = <<[id |-> 7, start |-> 3, end |-> 5]>>

\* the end page computed from a current/total pair at a block start
EndByPair(pgs, start) ==
    Max(start, Min(Len(pgs), start + (parse_ab_header(pgs[start]).total
                                        - parse_ab_header(pgs[start]).curr)))
\* C14: a block that starts on a page whose header parse gives a pair
\* current/total ends on max(start, min(document length, start + (total -
\* current))), whatever the labels of the pages in between, and no block
\* starts on a page after its start up to that end.
C14_PairGivesBlockEnd ==
    pc = "return" =>
        \A k \in 1..Len(fout) :
            parse_ab_header(pages[fout[k].start]).curr # None =>
                /\ fout[k].end = EndByPair(pages, fout[k].start)
                /\ \A j \in 1..Len(fout) :
                      fout[j].start \notin (fout[k].start + 1)..EndByPair(pages, fout[k].start)
                /\ k < Len(fout) => fout[k + 1].start >= fout[k].end + 1

\* C18: the blocks built by the header pass satisfy 1 <= start <= end <=
\* document length, are in strictly increasing start order, and each block
\* starts after the end of the block before it, so no page is in two blocks.
C18_BlocksOrderedAndDisjoint ==
    pc = "return" =>
        /\ \A k \in 1..Len(fout) :
              1 <= fout[k].start /\ fout[k].start <= fout[k].end /\ fout[k].end <= Len(pages)
        /\ \A k \in 1..(Len(fout) - 1) :
              fout[k].start < fout[k + 1].start /\ fout[k].end < fout[k + 1].start
        /\ \A j, k \in 1..Len(fout) :
              j # k => (fout[j].start..fout[j].end) \cap (fout[k].start..fout[k].end) = {}
\* three blocks: one ended by its pair over a page with another label, one
\* whose pair points before its start, and one ended by the document
C18_Witness ==
    /\ pc = "return" /\ Len(fout) = 3
    /\ CarriesPair(pages[fout[1].start]) /\ fout[1].end > fout[1].start
    /\ HeaderMap(pages)[fout[1].end] # fout[1].id
    /\ parse_ab_header(pages[fout[2].start]).total < parse_ab_header(pages[fout[2].start]).curr
    /\ fout[3].end = Len(pages)

\* _find_page_for_entry on documents of 1 to MaxFindDocPages pages, for names
\* of two words
MaxFindDocPages == 3
ALPHA == <<"a", "l", "p", "h", "a">>
BETA == <<"b", "e", "t", "a">>
FindTexts == {<<"x">>, ALPHA, BETA, <<"A", "B", " ", "7", " ">> \o BETA}
FindNames ==
    {ALPHA \o <<" ">> \o BETA, <<"B", "e", "t", "a", " ", " ">> \o ALPHA,
     <<"a", "b", "c", " ">> \o BETA, <<"g", "a", "m", "m", "a">>}
FindInputs == [id_int : {None, 7}, name : FindNames]
FindInit ==
    /\ FunctionInit
    /\ pages \in SeqsUpTo(FindTexts, MaxFindDocPages) \ {<<>>}
    /\ fin \in FindInputs
FindPageForEntry == FunctionCall(find_page_for_entry(pages, fin.id_int, fin.name))
FindSpec == FindInit /\ [][FindPageForEntry]_vars

\* the text in which the name and its tokens are looked for on a page
SearchedText(text) == Lower(clean_header_text(text))
\* the name as it is looked for
SearchedName(name) == Lower(Sub(RE_SPACES, <<" ">>, Strip(name)))
\* the id stage finds a page: one whose header parse gives the id
IdStageFinds(pgs, id_int) ==
    id_int # None /\ id_int # 0 /\ \E i \in 1..Len(pgs) : parse_ab_header(pgs[i]).id = id_int
\* the full-name stage finds a page: one that contains the name
NameStageFinds(pgs, name) ==
    \E i \in 1..Len(pgs) : Contains(SearchedText(pgs[i]), SearchedName(name))
\* the pages that contain a token of length >= 4 of the name
TokenPages(pgs, name) ==
    {i \in 1..Len(pgs) :
        \E tok \in Range(Tokens(SearchedName(name))) : Contains(SearchedText(pgs[i]), tok)}
\* C13: when neither the id stage nor the full-name stage finds a page, the
\* result is the lowest-numbered page that contains any token of length >= 4
\* of the name, whichever token that is, and none when no page contains one.
C13_TokenStageLowestPage ==
    (pc = "return" /\ ~IdStageFinds(pages, fin.id_int) /\ ~NameStageFinds(pages, fin.name)) =>
        IF TokenPages(pages, fin.name) = {} THEN fout = None
        ELSE /\ fout \in TokenPages(pages, fin.name)
             /\ \A i \in TokenPages(pages, fin.name) : fout <= i
\* TOC texts of one candidate 'AB <id> <name><separator><page><after>',
\* alone or followed by the candidate 'AB 8 Liste 5'
CandidateIds == {<<"7">>, <<"1", "2">>}
CandidateNames == {<<"P", "l", "a", "n">>, <<"M", "e", "i", "n", " ", "P", "l", "a", "n">>, <<>>}
CandidateSeparators == {<<" ">>, <<" ", "-", " ">>, <<":", " ">>}
CandidatePages == {<<"3">>, <<"4", "0">>, <<>>}
CandidateAfter == {<<>>, <<" ", "T", "e", "i", "l">>, <<".">>}
CandidateNext == {<<>>, <<" ", "A", "B", " ", "8", " ", "L", "i", "s", "t", "e", " ", "5">>}
CandidateInputs ==
    [id : CandidateIds, name : CandidateNames, sep : CandidateSeparators,
     page : CandidatePages, after : CandidateAfter, next : CandidateNext]
\* the text as it is in toc_text: whitespace collapsed and trimmed
CandidateText(c) ==
    Strip(Sub(RE_SPACES, <<" ">>,
              <<"A", "B", " ">> \o c.id \o <<" ">> \o c.name \o c.sep \o c.page
                  \o c.after \o c.next))
CandidateInit == FunctionInit /\ pages = <<>> /\ fin \in CandidateInputs
ParseCandidates == FunctionCall(ParseToc(CandidateText(fin)))
CandidateSpec == CandidateInit /\ [][ParseCandidates]_vars

\* the text of the k-th candidate of a TOC text: from the end of its id token
\* to the next id token
OwnText(toc_text, k) ==
    LET matches == FindIter(RE_AB_TOKEN, toc_text, 1)
    IN SubSeq(toc_text, matches[k].pos,
              IF k < Len(matches) THEN matches[k + 1].start - 1 ELSE Len(toc_text))
\* the numbers that stand in a text
NumbersIn(text) ==
    {DecVal(Group(text, m, 1)) : m \in Range(FindIter(RE_NUMBER, text, 1))}
\* C15: for every TOC candidate with a recovered page number, from the end of
\* its raw name or from the lookahead window, the recorded name no longer
\* holds that number, and the recorded name is part of the candidate's own
\* text between its id token and the next id token.
C15_PageNumberTakenOutOfName ==
    pc = "return" =>
        \A k \in 1..Len(fout) :
            fout[k].page # None =>
                /\ fout[k].page \notin NumbersIn(fout[k].name)
                /\ Contains(OwnText(CandidateText(fin), k), fout[k].name)
====
